---- MODULE Spec2Model ----
(***************************************************************************)
(* Model of the travel-entry store (src/src/components/utilities/storage.ts)*)
(* on top of the AsyncStorage key-value primitive.                          *)
(*                                                                          *)
(* JavaScript values are records [k, n, s]: k is the kind of the value, n  *)
(* its number (kind "number") and s its text (kind "string").  JSON text   *)
(* is modelled by its tokens, records [t, n, s], a different alphabet from *)
(* the values: JSON.stringify and JSON.parse translate between the two.    *)
(***************************************************************************)
EXTENDS Integers, Sequences, FiniteSets, TLC

(* ------------------------------------------------------------------ *)
(* Bounds of the model                                                  *)
(* ------------------------------------------------------------------ *)
MaxCalls == 2
MaxRejects == 1
MaxLen == 3

(* ------------------------------------------------------------------ *)
(* JavaScript values                                                    *)
(* ------------------------------------------------------------------ *)
Undefined == [k |-> "undefined"]
Null == [k |-> "null"]
NaN == [k |-> "NaN"]
Infinity == [k |-> "Infinity"]
Arr == [k |-> "array"]
Obj == [k |-> "object"]
Str(s) == [k |-> "string", s |-> s]
Num(n) == [k |-> "number", n |-> n]
\* The identifier saveEntry generates on a collision,
\* `entry_${Date.now().toString(36)}_${Math.random()...}`: the text "entry_"
\* followed by the n-th time/random suffix, taken to differ from every other
\* identifier in use.
GenId(n) == [k |-> "string", s |-> "entry_", n |-> n]

\* The typeof operator.
typeof(v) ==
  CASE v.k = "undefined" -> "undefined"
    [] v.k = "string" -> "string"
    [] v.k \in {"number", "NaN", "Infinity"} -> "number"
    [] OTHER -> "object"

\* Array.isArray.
isArray(v) == v.k = "array"

\* !v is true of these values.
falsy(v) == v.k \in {"undefined", "null", "NaN"} \/ v = Str("") \/ v = Num(0)

\* a === b on primitive values: NaN equals nothing.
strictEquals(a, b) == a.k # "NaN" /\ a = b

\* An object is the record of its properties, with k |-> "object".
\* entry[name]: undefined for a property the value does not have.
get(entry, name) == IF name \in DOMAIN entry THEN entry[name] ELSE Undefined

\* A travel entry as a caller builds it (title, notes and weather left out).
MkEntry(id, address, latitude, createdAt) ==
  [k |-> "object", id |-> id, imageUri |-> Str("u"), address |-> address,
   latitude |-> latitude, longitude |-> Num(2), createdAt |-> createdAt,
   tags |-> Arr]

(* ------------------------------------------------------------------ *)
(* Record Validator                                                     *)
(* ------------------------------------------------------------------ *)
requiredFields ==
  {<<"id", "string">>, <<"imageUri", "string">>, <<"address", "string">>,
   <<"latitude", "number">>, <<"longitude", "number">>,
   <<"createdAt", "number">>}

\* Mutant: the validator forgets the latitude/longitude/createdAt checks.
validateEntryLax(entry) ==
  /\ entry.k \in {"object", "array"}
  /\ typeof(get(entry, "id")) = "string"

\* Lines 5-32.  Line 6 lets through what is truthy and of type object.
validateEntry(entry) ==
  /\ entry.k \in {"object", "array"}
  /\ \A field \in requiredFields : typeof(get(entry, field[1])) = field[2]
  /\ ~(get(entry, "title") # Undefined /\ typeof(get(entry, "title")) # "string")
  /\ ~(get(entry, "notes") # Undefined /\ typeof(get(entry, "notes")) # "string")
  /\ ~(get(entry, "tags") # Undefined /\ ~isArray(get(entry, "tags")))
  /\ ~(get(entry, "weather") # Undefined
       /\ typeof(get(entry, "weather")) # "object")

\* parsed is [isArray |-> BOOLEAN, items |-> sequence of values].
validateEntries(parsed) ==
  /\ parsed.isArray
  /\ \A i \in 1..Len(parsed.items) : validateEntry(parsed.items[i])

(* ------------------------------------------------------------------ *)
(* JSON                                                                 *)
(* ------------------------------------------------------------------ *)
\* JSON.stringify of one value, as the token written: a number that is not
\* finite is written as null.  ("big" is a number literal beyond the double
\* range, 1e999, which stringify never writes.)
stringifyValue(v) ==
  CASE v.k = "null" -> [t |-> "null"]
    [] v.k = "NaN" -> [t |-> "null"]
    [] v.k = "Infinity" -> [t |-> "null"]
    [] v.k = "string" ->
         IF "n" \in DOMAIN v THEN [t |-> "str", s |-> v.s, n |-> v.n]
         ELSE [t |-> "str", s |-> v.s]
    [] v.k = "number" -> [t |-> "num", n |-> v.n]
    [] v.k = "array" -> [t |-> "arr"]
    [] OTHER -> [t |-> "obj"]

\* JSON.parse of one token.
parseValue(t) ==
  CASE t.t = "null" -> Null
    [] t.t = "str" ->
         IF "n" \in DOMAIN t THEN [k |-> "string", s |-> t.s, n |-> t.n]
         ELSE Str(t.s)
    [] t.t = "num" -> Num(t.n)
    [] t.t = "big" -> Infinity
    [] t.t = "arr" -> Arr
    [] OTHER -> Obj

\* One element of the stringified array: an object with its members (a
\* property that is undefined is not written), or the token of another value.
stringifyEntry(e) ==
  IF e.k = "object"
  THEN [x \in {"t"} \cup {y \in DOMAIN e \ {"k"} : e[y].k # "undefined"} |->
          IF x = "t" THEN "obj" ELSE stringifyValue(e[x])]
  ELSE stringifyValue(e)

parseEntry(j) ==
  IF j.t = "obj"
  THEN [x \in {"k"} \cup (DOMAIN j \ {"t"}) |->
          IF x = "k" THEN "object" ELSE parseValue(j[x])]
  ELSE parseValue(j)

\* What AsyncStorage holds under StorageKeys.ENTRIES: no item, or a string.
\* text: "array" (a JSON array of `items`), "nonarray" (other valid JSON),
\* "garbage" (JSON.parse throws), "empty" (the empty string).
NoItem == [tag |-> "absent", items |-> <<>>]
Text(tag, items) == [tag |-> tag, items |-> items]

JSONstringify(entries) ==
  Text("array", [i \in 1..Len(entries) |-> stringifyEntry(entries[i])])

\* JSON.parse: defined for the tags "array" and "nonarray".
JSONparse(text) ==
  [isArray |-> text.tag = "array",
   items |-> [i \in 1..Len(text.items) |-> parseEntry(text.items[i])]]

(* ------------------------------------------------------------------ *)
(* getEntries: decode, validate, sort                                   *)
(* ------------------------------------------------------------------ *)
\* Mutant: ascending instead of descending.
compareAscending(a, b) ==
  IF a.createdAt.k \in {"NaN", "Infinity"} \/ b.createdAt.k \in {"NaN", "Infinity"}
  THEN 0
  ELSE IF a.createdAt.n - b.createdAt.n > 0 THEN 1
  ELSE IF a.createdAt.n - b.createdAt.n < 0 THEN -1 ELSE 0

\* The sign of the comparator (a, b) => b.createdAt - a.createdAt; a NaN
\* difference (NaN operand, or Infinity - Infinity) counts as 0 in sort.
compareFn(a, b) ==
  LET x == b.createdAt
      y == a.createdAt
  IN  IF x.k = "NaN" \/ y.k = "NaN" THEN 0
      ELSE IF x.k = "Infinity" /\ y.k = "Infinity" THEN 0
      ELSE IF x.k = "Infinity" THEN 1
      ELSE IF y.k = "Infinity" THEN -1
      ELSE IF x.n - y.n > 0 THEN 1
      ELSE IF x.n - y.n < 0 THEN -1 ELSE 0

\* x put into the sorted sequence s behind every element that does not
\* compare after it (Array.prototype.sort is stable).
RECURSIVE insertSorted(_, _)
insertSorted(x, s) ==
  IF s = <<>> THEN <<x>>
  ELSE IF compareFn(s[1], x) > 0 THEN <<x>> \o s
  ELSE <<s[1]>> \o insertSorted(x, Tail(s))

RECURSIVE sort(_)
sort(s) ==
  IF s = <<>> THEN <<>>
  ELSE insertSorted(s[Len(s)], sort(SubSeq(s, 1, Len(s) - 1)))

\* Mutant: the elements that fail validation are dropped, the others returned.
getEntriesRepairing(item, ok) ==
  IF ~ok THEN <<>>
  ELSE IF item.tag \in {"absent", "empty"} THEN <<>>
  ELSE IF item.tag = "garbage" THEN <<>>
  ELSE IF ~JSONparse(item).isArray THEN <<>>
  ELSE sort(SelectSeq(JSONparse(item).items, LAMBDA e : validateEntry(e)))

\* getEntries as a function of what getItem gave: `item` when the call
\* resolved (ok), a rejection otherwise.  Every failure ends in [].
getEntries(item, ok) ==
  IF ~ok THEN <<>>
  ELSE IF item.tag \in {"absent", "empty"} THEN <<>>
  ELSE IF item.tag = "garbage" THEN <<>>
  ELSE IF ~validateEntries(JSONparse(item)) THEN <<>>
  ELSE sort(JSONparse(item).items)

\* entries.some(e => e.id === id)
someId(entries, id) ==
  \E i \in 1..Len(entries) : strictEquals(entries[i].id, id)

\* Mutant: a missing id is taken for the first entry.
findIndexOrFirst(entries, id) ==
  IF someId(entries, id)
  THEN CHOOSE i \in 1..Len(entries) :
         /\ strictEquals(entries[i].id, id)
         /\ \A j \in 1..(i - 1) : ~strictEquals(entries[j].id, id)
  ELSE IF entries # <<>> THEN 1 ELSE 0

\* entries.findIndex(e => e.id === id), 0 for -1
findIndex(entries, id) ==
  IF someId(entries, id)
  THEN CHOOSE i \in 1..Len(entries) :
         /\ strictEquals(entries[i].id, id)
         /\ \A j \in 1..(i - 1) : ~strictEquals(entries[j].id, id)
  ELSE 0

\* Mutant: the test of the filter is inverted (=== for !==).
RECURSIVE filterOnly(_, _)
filterOnly(entries, id) ==
  IF entries = <<>> THEN <<>>
  ELSE IF strictEquals(entries[1].id, id)
  THEN <<entries[1]>> \o filterOnly(Tail(entries), id)
  ELSE filterOnly(Tail(entries), id)

\* entries.filter(entry => entry.id !== id)
RECURSIVE filterOut(_, _)
filterOut(entries, id) ==
  IF entries = <<>> THEN <<>>
  ELSE IF ~strictEquals(entries[1].id, id) THEN <<entries[1]>> \o filterOut(Tail(entries), id)
  ELSE filterOut(Tail(entries), id)

(* ------------------------------------------------------------------ *)
(* State                                                                *)
(* ------------------------------------------------------------------ *)
VARIABLES
  storage,   \* what AsyncStorage holds under StorageKeys.ENTRIES
  proc,      \* the calls in progress, one record per slot; gets, sets and
             \* removes count the AsyncStorage calls the operation issued,
             \* seen is what its first getEntries returned, current what its
             \* verification getEntries returned, found the text the store
             \* held at that moment and verifyRejected whether the getItem of
             \* that read rejected
  last,      \* summary of the call that returned last (clean: none of its
             \* AsyncStorage calls rejected)
  calls,     \* calls made so far
  rejects,   \* AsyncStorage calls that rejected so far
  fresh      \* identifiers generated so far

vars == <<storage, proc, last, calls, rejects, fresh>>

Procs == {1, 2}

\* Return values.
NoRet == [k |-> "pending"]
Bool(b) == [k |-> "boolean", b |-> b]
Entries(v) == [k |-> "entries", v |-> v]
EntryOrNull(v) == IF v = <<>> THEN [k |-> "null"] ELSE [k |-> "entry", v |-> v[1]]
Number(n) == [k |-> "number", n |-> n]
Void == [k |-> "undefined"]

NoSummary == [op |-> "none"]

Idle ==
  [pc |-> "idle", op |-> "none", arg |-> Undefined, entry |-> Undefined,
   id |-> Undefined, seen |-> <<>>, pending |-> NoItem, ret |-> NoRet,
   gets |-> 0, sets |-> 0, removes |-> 0, rejected |-> FALSE, pre |-> NoItem,
   prev |-> NoSummary, found |-> NoItem, current |-> <<>>,
   verifyRejected |-> FALSE]

Running(p) == proc[p].pc \notin {"idle", "done"}

\* What the caller keeps of a call that returned.
Summary(r, ret) ==
  [op |-> r.op, arg |-> r.arg, entry |-> r.entry, id |-> r.id, ret |-> ret,
   pre |-> r.pre, post |-> storage, seen |-> r.seen,
   clean |-> ~r.rejected,
   gets |-> r.gets, sets |-> r.sets, removes |-> r.removes]

(* ------------------------------------------------------------------ *)
(* What callers pass                                                    *)
(* ------------------------------------------------------------------ *)
\* E1 carries a title; E2 is E1 with another address and no title; E4 has the
\* id of E1 and another createdAt; E5 has the empty id; the latitude of E6 is
\* NaN; E7 has no latitude; the tags of E8 are a string.
E2 == MkEntry(Str("a"), Str("y"), Num(1), Num(10))
E1 == [k |-> "object", id |-> Str("a"), imageUri |-> Str("u"),
       address |-> Str("x"), latitude |-> Num(1), longitude |-> Num(2),
       createdAt |-> Num(10), tags |-> Arr, title |-> Str("t")]
E3 == MkEntry(Str("b"), Str("x"), Num(1), Num(30))
E4 == MkEntry(Str("a"), Str("x"), Num(1), Num(20))
E5 == MkEntry(Str(""), Str("x"), Num(1), Num(20))
E6 == MkEntry(Str("b"), Str("x"), NaN, Num(20))
E7 == [k |-> "object", id |-> Str("a"), imageUri |-> Str("u"),
       address |-> Str("x"), longitude |-> Num(2), createdAt |-> Num(10),
       tags |-> Arr]

E8 == [E3 EXCEPT !.tags = Str("t")]

ArgEntries == {E1, E2, E3, E4, E5, E6, E7, E8, Null}
ArgIds == {Str(""), Str("a"), Str("b"), Null}
GeneratedIds == {GenId(i) : i \in 1..fresh}

\* What the store may hold when the program starts.
InitialItems ==
  {NoItem, Text("empty", <<>>), Text("garbage", <<>>), Text("nonarray", <<>>),
   JSONstringify(<<E1, Num(5)>>),
   JSONstringify(<<E3>>),
   JSONstringify(<<E3, E1, E5>>)}

(* ------------------------------------------------------------------ *)
(* Steps shared by the operations                                       *)
(* ------------------------------------------------------------------ *)
\* A call takes the first free slot.  r is the state of the call at its first
\* await, or at its return when it returns without awaiting.
Call(p, r) ==
  LET started == [r EXCEPT !.pre = storage, !.prev = last]
  IN  /\ ~Running(p)
      /\ \A q \in Procs : q < p => Running(q)
      /\ calls < MaxCalls
      /\ calls' = calls + 1
      /\ proc' = [proc EXCEPT ![p] = started]
      /\ last' = IF r.pc = "done" THEN Summary(started, r.ret) ELSE last

\* The outcome of one AsyncStorage call: resolved (ok) or rejected.
Outcome(ok) ==
  /\ ok \/ rejects < MaxRejects
  /\ rejects' = IF ok THEN rejects ELSE rejects + 1

\* The call in slot p returns ret, from the state r it reached.
Return(p, r, ret) ==
  /\ proc' = [proc EXCEPT ![p] = [r EXCEPT !.pc = "done", !.ret = ret]]
  /\ last' = Summary(r, ret)

(* ------------------------------------------------------------------ *)
(* saveEntry                                                            *)
(* ------------------------------------------------------------------ *)
\* Mutant: the duplicate check is dropped, the entry is appended as it is.
saveEntryAppendNoCheck(entry, existingEntries, n) ==
  existingEntries \o <<entry>>

\* Mutant: the id is rewritten whether or not it collides.
saveEntryAppendFresh(entry, existingEntries, n) ==
  existingEntries \o <<[entry EXCEPT !.id = GenId(n)]>>

\* Lines 55-62: the caller's entry after the duplicate check (its id rewritten
\* to the n-th generated identifier on a collision) appended to what was read.
saveEntryAppend(entry, existingEntries, n) ==
  IF someId(existingEntries, entry.id)
  THEN existingEntries \o <<[entry EXCEPT !.id = GenId(n)]>>
  ELSE existingEntries \o <<entry>>

\* The call, up to the first await (lines 47-53).
saveEntry(p, e) ==
  /\ e \in ArgEntries
  /\ Call(p, IF validateEntry(e)
             THEN [Idle EXCEPT !.op = "saveEntry", !.arg = e, !.entry = e,
                               !.pc = "get1", !.gets = 1]
             ELSE [Idle EXCEPT !.op = "saveEntry", !.arg = e, !.entry = e,
                               !.pc = "done", !.ret = Bool(FALSE)])
  /\ UNCHANGED <<storage, rejects, fresh>>

\* getEntries returned: duplicate check, append, setItem issued (lines 53-65).
saveEntryGot(p, ok) ==
  LET r == proc[p]
      existingEntries == getEntries(storage, ok)
      collides == someId(existingEntries, r.entry.id)
      updatedEntries == saveEntryAppend(r.entry, existingEntries, fresh + 1)
  IN  /\ r.op = "saveEntry" /\ r.pc = "get1"
      /\ Outcome(ok)
      /\ fresh' = IF collides THEN fresh + 1 ELSE fresh
      /\ proc' = [proc EXCEPT ![p] =
           [r EXCEPT !.pc = "set", !.seen = existingEntries,
                     !.entry = updatedEntries[Len(updatedEntries)],
                     !.pending = JSONstringify(updatedEntries),
                     !.sets = r.sets + 1, !.rejected = r.rejected \/ ~ok]]
      /\ UNCHANGED <<storage, last, calls>>

\* Mutant: the result of the verification read is ignored.
saveEntryVerifyIgnored(p, ok) ==
  LET r == proc[p]
      currentEntries == getEntries(storage, ok)
  IN  /\ r.op = "saveEntry" /\ r.pc = "get2"
      /\ Outcome(ok)
      /\ Return(p, [r EXCEPT !.rejected = r.rejected \/ ~ok,
                             !.found = storage, !.current = currentEntries,
                             !.verifyRejected = ~ok],
                Bool(TRUE))
      /\ UNCHANGED <<storage, calls, fresh>>

\* The verification read returned (lines 68-76).
saveEntryVerify(p, ok) ==
  LET r == proc[p]
      currentEntries == getEntries(storage, ok)
      wasSaved == someId(currentEntries, r.entry.id)
  IN  /\ r.op = "saveEntry" /\ r.pc = "get2"
      /\ Outcome(ok)
      /\ Return(p, [r EXCEPT !.rejected = r.rejected \/ ~ok,
                             !.found = storage, !.current = currentEntries,
                             !.verifyRejected = ~ok],
                Bool(wasSaved))
      /\ UNCHANGED <<storage, calls, fresh>>

(* ------------------------------------------------------------------ *)
(* AsyncStorage.setItem / removeItem taking effect                      *)
(* ------------------------------------------------------------------ *)
\* Mutant: the rejection of setItem is not caught, the operation ends with the
\* rejection instead of returning.
setItemUncaught(p, ok) ==
  LET r == proc[p]
  IN  /\ r.pc = "set"
      /\ Outcome(ok)
      /\ storage' = IF ok THEN r.pending ELSE storage
      /\ proc' = [proc EXCEPT ![p] =
                    IF ok THEN [r EXCEPT !.pc = "get2", !.gets = r.gets + 1]
                    ELSE [r EXCEPT !.pc = "raised", !.rejected = TRUE]]
      /\ UNCHANGED <<last, calls, fresh>>

\* Mutant: setItem adds the elements it is given to those stored instead of
\* replacing the stored text.
setItemMerged(p, ok) ==
  LET r == proc[p]
      added == SelectSeq(r.pending.items,
                         LAMBDA j : \A i \in 1..Len(storage.items) :
                                      storage.items[i] # j)
  IN  /\ r.pc = "set"
      /\ Outcome(ok)
      /\ IF ok
         THEN /\ storage' = Text("array", storage.items \o added)
              /\ proc' = [proc EXCEPT ![p] =
                            [r EXCEPT !.pc = "get2", !.gets = r.gets + 1]]
              /\ last' = last
         ELSE /\ storage' = storage
              /\ Return(p, [r EXCEPT !.rejected = TRUE], Bool(FALSE))
      /\ UNCHANGED <<calls, fresh>>

\* The setItem of saveEntry, removeEntry or updateEntry resolves (the string is
\* stored, the operation goes on to its verification read) or rejects (the
\* operation's catch returns false).
setItem(p, ok) ==
  LET r == proc[p]
  IN  /\ r.pc = "set"
      /\ Outcome(ok)
      /\ IF ok
         THEN /\ storage' = r.pending
              /\ proc' = [proc EXCEPT ![p] =
                            [r EXCEPT !.pc = "get2", !.gets = r.gets + 1]]
              /\ last' = last
         ELSE /\ storage' = storage
              /\ Return(p, [r EXCEPT !.rejected = TRUE], Bool(FALSE))
      /\ UNCHANGED <<calls, fresh>>

\* Mutant: removeItem resolves without removing the item.
removeItemKept(p, ok) ==
  LET r == proc[p]
  IN  /\ r.pc = "remove"
      /\ Outcome(ok)
      /\ storage' = storage
      /\ IF ok
         THEN /\ proc' = [proc EXCEPT ![p] =
                            [r EXCEPT !.pc = "get2", !.gets = r.gets + 1]]
              /\ last' = last
         ELSE Return(p, [r EXCEPT !.rejected = TRUE], Bool(FALSE))
      /\ UNCHANGED <<calls, fresh>>

\* The removeItem of clearAllEntries resolves or rejects.
removeItem(p, ok) ==
  LET r == proc[p]
  IN  /\ r.pc = "remove"
      /\ Outcome(ok)
      /\ IF ok
         THEN /\ storage' = NoItem
              /\ proc' = [proc EXCEPT ![p] =
                            [r EXCEPT !.pc = "get2", !.gets = r.gets + 1]]
              /\ last' = last
         ELSE /\ storage' = storage
              /\ Return(p, [r EXCEPT !.rejected = TRUE], Bool(FALSE))
      /\ UNCHANGED <<calls, fresh>>

(* ------------------------------------------------------------------ *)
(* removeEntry                                                          *)
(* ------------------------------------------------------------------ *)
\* Line 125 negated: !id is true of the empty string.
removeEntryIdOk(id) == ~(falsy(id) \/ typeof(id) # "string")

\* The call, up to the first await (lines 124-129).
removeEntry(p, id) ==
  /\ id \in ArgIds \cup GeneratedIds
  /\ Call(p, IF removeEntryIdOk(id)
             THEN [Idle EXCEPT !.op = "removeEntry", !.id = id, !.pc = "get1",
                               !.gets = 1]
             ELSE [Idle EXCEPT !.op = "removeEntry", !.id = id, !.pc = "done",
                               !.ret = Bool(FALSE)])
  /\ UNCHANGED <<storage, rejects, fresh>>

\* getEntries returned: not found, or filter and setItem issued (lines 129-138).
removeEntryGot(p, ok) ==
  LET r == proc[p]
      existingEntries == getEntries(storage, ok)
      entryExists == someId(existingEntries, r.id)
      updatedEntries == filterOut(existingEntries, r.id)
      got == [r EXCEPT !.seen = existingEntries, !.rejected = r.rejected \/ ~ok]
  IN  /\ r.op = "removeEntry" /\ r.pc = "get1"
      /\ Outcome(ok)
      /\ IF ~entryExists
         THEN Return(p, got, Bool(FALSE))
         ELSE /\ proc' = [proc EXCEPT ![p] =
                   [got EXCEPT !.pc = "set", !.sets = r.sets + 1,
                               !.pending = JSONstringify(updatedEntries)]]
              /\ last' = last
      /\ UNCHANGED <<storage, calls, fresh>>

\* The verification read returned (lines 141-149).
removeEntryVerify(p, ok) ==
  LET r == proc[p]
      currentEntries == getEntries(storage, ok)
      wasRemoved == ~someId(currentEntries, r.id)
  IN  /\ r.op = "removeEntry" /\ r.pc = "get2"
      /\ Outcome(ok)
      /\ Return(p, [r EXCEPT !.rejected = r.rejected \/ ~ok,
                             !.found = storage, !.current = currentEntries,
                             !.verifyRejected = ~ok],
                Bool(wasRemoved))
      /\ UNCHANGED <<storage, calls, fresh>>

(* ------------------------------------------------------------------ *)
(* updateEntry                                                          *)
(* ------------------------------------------------------------------ *)
\* Line 173: existingEntries[entryIndex] = updatedEntry.
updateEntryReplace(existingEntries, entryIndex, updatedEntry) ==
  [existingEntries EXCEPT ![entryIndex] = updatedEntry]

\* What a caller may pass: a fresh object, or one whose id saveEntry rewrote.
UpdateArgs == ArgEntries \cup {[E2 EXCEPT !.id = g] : g \in GeneratedIds}

\* The call, up to the first await (lines 160-165).
updateEntry(p, e) ==
  /\ e \in UpdateArgs
  /\ Call(p, IF validateEntry(e)
             THEN [Idle EXCEPT !.op = "updateEntry", !.arg = e, !.entry = e,
                               !.id = e.id, !.pc = "get1", !.gets = 1]
             ELSE [Idle EXCEPT !.op = "updateEntry", !.arg = e, !.entry = e,
                               !.pc = "done", !.ret = Bool(FALSE)])
  /\ UNCHANGED <<storage, rejects, fresh>>

\* getEntries returned: not found, or replace and setItem issued
\* (lines 165-174).
updateEntryGot(p, ok) ==
  LET r == proc[p]
      existingEntries == getEntries(storage, ok)
      entryIndex == findIndex(existingEntries, r.entry.id)
      got == [r EXCEPT !.seen = existingEntries, !.rejected = r.rejected \/ ~ok]
  IN  /\ r.op = "updateEntry" /\ r.pc = "get1"
      /\ Outcome(ok)
      /\ IF entryIndex = 0
         THEN Return(p, got, Bool(FALSE))
         ELSE /\ proc' = [proc EXCEPT ![p] =
                   [got EXCEPT !.pc = "set", !.sets = r.sets + 1,
                               !.pending = JSONstringify(
                                  updateEntryReplace(existingEntries, entryIndex,
                                                     r.entry))]]
              /\ last' = last
      /\ UNCHANGED <<storage, calls, fresh>>

\* Mutant: the verification looks for the id only, not for createdAt.
updateEntryVerifyIdOnly(p, ok) ==
  LET r == proc[p]
      currentEntries == getEntries(storage, ok)
  IN  /\ r.op = "updateEntry" /\ r.pc = "get2"
      /\ Outcome(ok)
      /\ Return(p, [r EXCEPT !.rejected = r.rejected \/ ~ok,
                             !.found = storage, !.current = currentEntries,
                             !.verifyRejected = ~ok],
                Bool(someId(currentEntries, r.entry.id)))
      /\ UNCHANGED <<storage, calls, fresh>>

\* The verification read returned (lines 177-187).
updateEntryVerify(p, ok) ==
  LET r == proc[p]
      currentEntries == getEntries(storage, ok)
      updatedInStorage ==
        \E i \in 1..Len(currentEntries) :
          /\ strictEquals(currentEntries[i].id, r.entry.id)
          /\ strictEquals(currentEntries[i].createdAt, r.entry.createdAt)
  IN  /\ r.op = "updateEntry" /\ r.pc = "get2"
      /\ Outcome(ok)
      /\ Return(p, [r EXCEPT !.rejected = r.rejected \/ ~ok,
                             !.found = storage, !.current = currentEntries,
                             !.verifyRejected = ~ok],
                Bool(updatedInStorage))
      /\ UNCHANGED <<storage, calls, fresh>>

(* ------------------------------------------------------------------ *)
(* clearAllEntries                                                      *)
(* ------------------------------------------------------------------ *)
\* The call: removeItem issued (lines 198-199).
clearAllEntries(p) ==
  /\ Call(p, [Idle EXCEPT !.op = "clearAllEntries", !.pc = "remove",
                          !.removes = 1])
  /\ UNCHANGED <<storage, rejects, fresh>>

\* The verification read returned (lines 202-208).
clearAllEntriesVerify(p, ok) ==
  LET r == proc[p]
      currentEntries == getEntries(storage, ok)
  IN  /\ r.op = "clearAllEntries" /\ r.pc = "get2"
      /\ Outcome(ok)
      /\ Return(p, [r EXCEPT !.rejected = r.rejected \/ ~ok,
                             !.found = storage, !.current = currentEntries,
                             !.verifyRejected = ~ok],
                Bool(~(Len(currentEntries) > 0)))
      /\ UNCHANGED <<storage, calls, fresh>>

(* ------------------------------------------------------------------ *)
(* The read-only operations                                             *)
(* ------------------------------------------------------------------ *)
\* entries.find(e => e.id === id) || null, as a sequence of at most one entry
getEntryByIdResult(entries, id) ==
  IF findIndex(entries, id) = 0 THEN <<>> ELSE <<entries[findIndex(entries, id)]>>

\* A call of getEntries, getEntryById, getEntryCount or debugStorage: getItem
\* issued.
callRead(p, o, id) ==
  /\ id \in (IF o = "getEntryById" THEN ArgIds \cup GeneratedIds ELSE {Undefined})
  /\ Call(p, [Idle EXCEPT !.op = o, !.id = id, !.pc = "get1", !.gets = 1])
  /\ UNCHANGED <<storage, rejects, fresh>>

\* Mutant: a read-only operation writes back the collection it read.
returnReadRepairing(p, ok) ==
  LET r == proc[p]
      entries == getEntries(storage, ok)
      got == [r EXCEPT !.seen = entries, !.rejected = r.rejected \/ ~ok]
  IN  /\ r.op \in {"getEntries", "getEntryById", "getEntryCount", "debugStorage"}
      /\ r.pc = "get1"
      /\ Outcome(ok)
      /\ storage' = JSONstringify(entries)
      /\ Return(p, got,
                CASE r.op = "getEntries" -> Entries(entries)
                  [] r.op = "getEntryById" ->
                       EntryOrNull(getEntryByIdResult(entries, r.id))
                  [] r.op = "getEntryCount" -> Number(Len(entries))
                  [] OTHER -> Void)
      /\ UNCHANGED <<calls, fresh>>

\* getItem returned to a read-only operation, which returns (lines 86-104,
\* 109-118, 218-226, 231-244).
returnRead(p, ok) ==
  LET r == proc[p]
      entries == getEntries(storage, ok)
      got == [r EXCEPT !.seen = entries, !.rejected = r.rejected \/ ~ok]
  IN  /\ r.op \in {"getEntries", "getEntryById", "getEntryCount", "debugStorage"}
      /\ r.pc = "get1"
      /\ Outcome(ok)
      /\ Return(p, got,
                CASE r.op = "getEntries" -> Entries(entries)
                  [] r.op = "getEntryById" ->
                       EntryOrNull(getEntryByIdResult(entries, r.id))
                  [] r.op = "getEntryCount" -> Number(Len(entries))
                  [] OTHER -> Void)
      /\ UNCHANGED <<storage, calls, fresh>>

(* ------------------------------------------------------------------ *)
(* The specifications                                                   *)
(* ------------------------------------------------------------------ *)
InitWith(items) ==
  /\ storage \in items
  /\ proc = [p \in Procs |-> Idle]
  /\ last = NoSummary
  /\ calls = 0
  /\ rejects = 0
  /\ fresh = 0

Init == InitWith(InitialItems)

ReadOps == {"getEntries", "getEntryById", "getEntryCount", "debugStorage"}

\* The steps of slot p: a call, or an AsyncStorage call of the operation in
\* the slot settling.
Step(p) ==
  \/ \E e \in ArgEntries : saveEntry(p, e)
  \/ \E id \in ArgIds \cup GeneratedIds : removeEntry(p, id)
  \/ \E e \in UpdateArgs : updateEntry(p, e)
  \/ clearAllEntries(p)
  \/ \E o \in ReadOps :
       \E id \in ArgIds \cup GeneratedIds \cup {Undefined} : callRead(p, o, id)
  \/ \E ok \in BOOLEAN : saveEntryGot(p, ok)
  \/ \E ok \in BOOLEAN : saveEntryVerify(p, ok)
  \/ \E ok \in BOOLEAN : removeEntryGot(p, ok)
  \/ \E ok \in BOOLEAN : removeEntryVerify(p, ok)
  \/ \E ok \in BOOLEAN : updateEntryGot(p, ok)
  \/ \E ok \in BOOLEAN : updateEntryVerify(p, ok)
  \/ \E ok \in BOOLEAN : clearAllEntriesVerify(p, ok)
  \/ \E ok \in BOOLEAN : returnRead(p, ok)
  \/ \E ok \in BOOLEAN : setItem(p, ok)
  \/ \E ok \in BOOLEAN : removeItem(p, ok)

\* Calls may overlap: a second call may start while the first awaits.
Next == \E p \in Procs : Step(p)

\* Calls one after the other: each starts after the one before returned.
NextSeq == Step(1)

\* Any store content at start, calls interleaved, AsyncStorage calls may reject.
Spec == Init /\ [][Next]_vars

\* The same program started on a store without the key.
SpecAbsent == InitWith({NoItem}) /\ [][Next]_vars

\* Non-interleaved runs from any store content.
SpecSeq == Init /\ [][NextSeq]_vars

\* An AsyncStorage call of the operation in slot p settles.
Settle(p) ==
  \/ \E ok \in BOOLEAN : saveEntryGot(p, ok)
  \/ \E ok \in BOOLEAN : saveEntryVerify(p, ok)
  \/ \E ok \in BOOLEAN : removeEntryGot(p, ok)
  \/ \E ok \in BOOLEAN : removeEntryVerify(p, ok)
  \/ \E ok \in BOOLEAN : updateEntryGot(p, ok)
  \/ \E ok \in BOOLEAN : updateEntryVerify(p, ok)
  \/ \E ok \in BOOLEAN : clearAllEntriesVerify(p, ok)
  \/ \E ok \in BOOLEAN : returnRead(p, ok)
  \/ \E ok \in BOOLEAN : setItem(p, ok)
  \/ \E ok \in BOOLEAN : removeItem(p, ok)

\* The arguments of the calls in SpecLive: E3 (stored at the start), E6 (NaN
\* latitude) and null for entries, "b" (stored) and "" for ids.
LiveEntries == {E3, E6, Null}
LiveIds == {Str("b"), Str("")}

\* The steps of slot p with those arguments.
StepLive(p) ==
  \/ \E e \in LiveEntries : saveEntry(p, e)
  \/ \E id \in LiveIds : removeEntry(p, id)
  \/ \E e \in LiveEntries : updateEntry(p, e)
  \/ clearAllEntries(p)
  \/ \E o \in ReadOps : \E id \in LiveIds \cup {Undefined} : callRead(p, o, id)
  \/ Settle(p)

NextLive == \E p \in Procs : StepLive(p)

\* Overlapping calls on a store that holds E3, where every AsyncStorage call
\* settles (resolves or rejects) in the end: AsyncStorage neither cancels nor
\* times out, and the module awaits nothing else.
SpecLive ==
  /\ InitWith({JSONstringify(<<E3>>)})
  /\ [][NextLive]_vars
  /\ \A p \in Procs : WF_vars(Settle(p))

\* The elements a stored array is built from for the read path: E1, E3, E5
\* (createdAt 10, 30, 20), an entry whose createdAt is written 1e999, and an
\* element that is no record.
ReadElems ==
  {stringifyEntry(E1), stringifyEntry(E3), stringifyEntry(E5),
   [stringifyEntry(E4) EXCEPT !.createdAt = [t |-> "big"]],
   stringifyValue(Num(5))}

RECURSIVE SeqsUpTo(_, _)
SeqsUpTo(S, n) ==
  IF n = 0 THEN {<<>>}
  ELSE SeqsUpTo(S, n - 1)
         \cup {Append(q, x) : q \in SeqsUpTo(S, n - 1), x \in S}

\* The read-only operations, one after the other.
NextRead ==
  \/ \E o \in ReadOps :
       \E id \in ArgIds \cup {Undefined} : callRead(1, o, id)
  \/ \E ok \in BOOLEAN : returnRead(1, ok)

\* The read path on every stored array of at most MaxLen elements.
SpecRead ==
  InitWith({Text("array", q) : q \in SeqsUpTo(ReadElems, MaxLen)})
    /\ [][NextRead]_vars

(* ------------------------------------------------------------------ *)
(* Vocabulary of the properties                                         *)
(* ------------------------------------------------------------------ *)
\* The TravelEntry schema of the data model, written out field by field.
ConformsToSchema(e) ==
  /\ e.k = "object"
  /\ {"id", "imageUri", "address", "latitude", "longitude", "createdAt"}
       \subseteq DOMAIN e
  /\ e.id.k = "string" /\ e.imageUri.k = "string" /\ e.address.k = "string"
  /\ e.latitude.k \in {"number", "NaN", "Infinity"}
  /\ e.longitude.k \in {"number", "NaN", "Infinity"}
  /\ e.createdAt.k \in {"number", "NaN", "Infinity"}
  /\ ("title" \in DOMAIN e => e.title.k = "string")
  /\ ("notes" \in DOMAIN e => e.notes.k = "string")
  /\ ("tags" \in DOMAIN e => e.tags.k = "array")
  /\ ("weather" \in DOMAIN e => e.weather.k \in {"object", "null", "array"})

\* The elements of the stored text, decoded, when it is a JSON array.
Decoded(item) ==
  IF item.tag = "array"
  THEN [i \in 1..Len(item.items) |-> parseEntry(item.items[i])]
  ELSE <<>>

\* The stored text decodes to a sequence of records that conform.
PersistedValid(item) ==
  \/ item.tag = "absent"
  \/ /\ item.tag = "array"
     /\ \A i \in 1..Len(item.items) : ConformsToSchema(Decoded(item)[i])

DistinctIds(entries) ==
  \A i, j \in 1..Len(entries) :
    i # j => get(entries[i], "id") # get(entries[j], "id")

Mutating == {"saveEntry", "removeEntry", "updateEntry", "clearAllEntries"}

Done(p, o) == proc[p].pc = "done" /\ proc[p].op = o

\* What a read-all without interference or rejection gives on item.
ReadAll(item) == getEntries(item, TRUE)

(* ------------------------------------------------------------------ *)
(* C1  Persisted validity                                               *)
(* ------------------------------------------------------------------ *)
\* C1: started on a store without the key, whatever calls are made, the text
\* under the key always decodes to a collection in which every record passes
\* the schema (so read-all never collapses what the store wrote).
C1_PersistedValid == PersistedValid(storage)

(* ------------------------------------------------------------------ *)
(* C2  Id uniqueness                                                    *)
(* ------------------------------------------------------------------ *)
\* C2: from a store with pairwise distinct ids, in every interleaving, once a
\* saveEntry, updateEntry, removeEntry or clearAllEntries has returned true
\* the stored collection holds no two entries with the same id.
C2_IdsUnique ==
  \A p \in Procs :
    (proc[p].pc = "done" /\ proc[p].op \in Mutating /\ proc[p].ret = Bool(TRUE))
      => DistinctIds(Decoded(storage))

\* A saveEntry that met a collision returned true and two entries are stored.
C2_Witness ==
  \E p \in Procs :
    /\ Done(p, "saveEntry") /\ proc[p].ret = Bool(TRUE)
    /\ proc[p].entry.id # proc[p].arg.id
    /\ Len(ReadAll(storage)) >= 2
    /\ someId(ReadAll(storage), proc[p].arg.id)
    /\ someId(ReadAll(storage), proc[p].entry.id)

(* ------------------------------------------------------------------ *)
(* C3  Round trip                                                       *)
(* ------------------------------------------------------------------ *)
\* C3: in a non-interleaved run without rejections, saveEntry of an entry
\* that conforms to the schema returns true, and the getEntryById that
\* follows, asked for the entry's id (after any rewrite), returns an entry
\* equal to it in all fields.
C3_RoundTrip ==
  LET r == proc[1]
  IN  /\ (Done(1, "saveEntry") /\ ~r.rejected /\ ConformsToSchema(r.arg))
           => r.ret = Bool(TRUE)
      /\ (/\ Done(1, "getEntryById") /\ ~r.rejected
          /\ r.prev.op = "saveEntry" /\ r.prev.clean
          /\ ConformsToSchema(r.prev.arg)
          /\ r.id = r.prev.entry.id)
           => r.ret = [k |-> "entry", v |-> r.prev.entry]

(* ------------------------------------------------------------------ *)
(* C4  Uniqueness under collision                                       *)
(* ------------------------------------------------------------------ *)
\* C4: in a non-interleaved run without rejections, two saveEntry calls in a
\* row with conforming entries of the same id (an id the store did not hold)
\* leave two more entries stored, with distinct ids: the first keeps the id,
\* the second is the one rewritten.
C4_UniquenessUnderCollision ==
  LET r == proc[1]
  IN  (/\ Done(1, "saveEntry") /\ ~r.rejected /\ ConformsToSchema(r.arg)
       /\ r.prev.op = "saveEntry" /\ r.prev.clean
       /\ ConformsToSchema(r.prev.arg)
       /\ r.prev.arg.id = r.arg.id
       /\ ~someId(ReadAll(r.prev.pre), r.arg.id))
        => /\ Len(ReadAll(storage)) = Len(ReadAll(r.prev.pre)) + 2
           /\ DistinctIds(ReadAll(storage))
           /\ r.prev.entry.id = r.arg.id
           /\ r.entry.id # r.arg.id
           /\ someId(ReadAll(storage), r.prev.entry.id)
           /\ someId(ReadAll(storage), r.entry.id)

(* ------------------------------------------------------------------ *)
(* C6  Delete of a present id                                           *)
(* ------------------------------------------------------------------ *)
\* The ids the statement ranges over: every string, or the non-empty ones.
C6_Ids(nonEmpty, id) == id.k = "string" /\ (nonEmpty => id # Str(""))

\* In a non-interleaved run without rejections: removeEntry of an id (among
\* those the statement ranges over) that a stored entry carries returns true,
\* the id is gone, one entry less is stored and the others are unchanged; the
\* getEntryById of that id that follows returns null, the getEntryCount that
\* follows returns one less than before.
C6_Delete(nonEmpty) ==
  LET r == proc[1]
      before == ReadAll(r.pre)
      after == ReadAll(storage)
  IN  /\ (/\ Done(1, "removeEntry") /\ ~r.rejected
          /\ C6_Ids(nonEmpty, r.id) /\ someId(before, r.id))
           => /\ r.ret = Bool(TRUE)
              /\ ~someId(after, r.id)
              /\ Len(after) = Len(before) - 1
              /\ \A i \in 1..Len(before) :
                   before[i].id # r.id => \E j \in 1..Len(after) : after[j] = before[i]
      /\ (/\ proc[1].pc = "done" /\ r.op \in {"getEntryById", "getEntryCount"}
          /\ ~r.rejected
          /\ r.prev.op = "removeEntry" /\ r.prev.clean
          /\ C6_Ids(nonEmpty, r.prev.id) /\ someId(ReadAll(r.prev.pre), r.prev.id)
          /\ (r.op = "getEntryById" => r.id = r.prev.id))
           => IF r.op = "getEntryById" THEN r.ret = [k |-> "null"]
              ELSE r.ret = Number(Len(ReadAll(r.prev.pre)) - 1)

\* C6 as stated: for every id X (any string) that a stored entry carries.
C6_DeleteAnyString == C6_Delete(FALSE)

\* C6 amended: for every non-empty id X that a stored entry carries; the empty
\* string is refused before anything is read, so removeEntry("") returns
\* false and leaves the store as it is, also when an entry has that id.
C6_DeleteNonEmpty ==
  /\ C6_Delete(TRUE)
  /\ (Done(1, "removeEntry") /\ proc[1].id = Str(""))
       => /\ proc[1].ret = Bool(FALSE)
          /\ proc[1].gets = 0 /\ proc[1].sets = 0 /\ proc[1].removes = 0
          /\ storage = proc[1].pre

\* getEntryCount after a removeEntry that returned true: one entry less, and
\* entries are left.
C6_Witness ==
  LET r == proc[1]
  IN  /\ Done(1, "getEntryCount") /\ ~r.rejected
      /\ r.prev.op = "removeEntry" /\ r.prev.clean /\ r.prev.ret = Bool(TRUE)
      /\ r.ret = Number(Len(ReadAll(r.prev.pre)) - 1)
      /\ r.ret.n >= 2

(* ------------------------------------------------------------------ *)
(* C5  read-all ordering                                                *)
(* ------------------------------------------------------------------ *)
\* x >= y on the numbers JSON.parse can give.
Geq(x, y) == x.k = "Infinity" \/ (x.k = "number" /\ y.k = "number" /\ x.n >= y.n)

SameMultiset(a, b) ==
  /\ Len(a) = Len(b)
  /\ \A i \in 1..Len(a) :
       Cardinality({j \in 1..Len(a) : a[j] = a[i]})
         = Cardinality({j \in 1..Len(b) : b[j] = a[i]})

\* C5: on a stored array in which every record conforms, getEntries returns
\* exactly the stored entries, ordered by createdAt non-increasing.
C5_ReadAllSorted ==
  LET r == proc[1]
  IN  (/\ Done(1, "getEntries") /\ ~r.rejected
       /\ storage.tag = "array" /\ PersistedValid(storage))
        => /\ r.ret.k = "entries"
           /\ SameMultiset(r.ret.v, Decoded(storage))
           /\ \A i, j \in 1..Len(r.ret.v) :
                i < j => Geq(r.ret.v[i].createdAt, r.ret.v[j].createdAt)

\* Stored createdAt values [10, 30, 20] are returned as [30, 20, 10].
C5_Witness ==
  /\ Done(1, "getEntries")
  /\ Len(storage.items) = 3
  /\ [i \in 1..3 |-> get(Decoded(storage)[i], "createdAt")]
       = <<Num(10), Num(30), Num(20)>>
  /\ proc[1].ret.k = "entries"
  /\ [i \in 1..Len(proc[1].ret.v) |-> proc[1].ret.v[i].createdAt]
       = <<Num(30), Num(20), Num(10)>>

(* ------------------------------------------------------------------ *)
(* C7  Not found leaves storage untouched                               *)
(* ------------------------------------------------------------------ *)
\* C7: in every interleaving, a removeEntry or updateEntry whose read-all
\* held no entry with the requested id returns false having issued its one
\* getItem and no setItem or removeItem; with no other call in progress the
\* stored text is the one it found.
C7_NotFoundNoWrite ==
  \A p \in Procs :
    LET r == proc[p]
    IN  (/\ r.pc = "done" /\ r.op \in {"removeEntry", "updateEntry"}
         /\ r.gets >= 1
         /\ ~someId(r.seen, r.id))
          => /\ r.ret = Bool(FALSE)
             /\ r.gets = 1 /\ r.sets = 0 /\ r.removes = 0
             /\ (proc[2].op = "none" => storage = r.pre)

\* An updateEntry that found other entries, not the one asked for.
C7_Witness ==
  \E p \in Procs :
    /\ Done(p, "updateEntry") /\ proc[p].gets = 1
    /\ proc[p].seen # <<>> /\ ~someId(proc[p].seen, proc[p].id)
    /\ proc[p].ret = Bool(FALSE)
    /\ storage.items # <<>>

(* ------------------------------------------------------------------ *)
(* C8  Update replacement                                               *)
(* ------------------------------------------------------------------ *)
\* C8: in a non-interleaved run without rejections, updateEntry of a
\* conforming entry whose id is stored returns true; afterwards the entry
\* read under that id is the one passed, in every field, as many entries are
\* stored as before and those with another id are unchanged; the getEntryById
\* that follows returns the entry passed.
C8_UpdateReplacement ==
  LET r == proc[1]
      before == ReadAll(r.pre)
      after == ReadAll(storage)
  IN  /\ (/\ Done(1, "updateEntry") /\ ~r.rejected
          /\ ConformsToSchema(r.arg) /\ someId(before, r.arg.id))
           => /\ r.ret = Bool(TRUE)
              /\ getEntryByIdResult(after, r.arg.id) = <<r.arg>>
              /\ Len(after) = Len(before)
              /\ \A i \in 1..Len(before) :
                   before[i].id # r.arg.id
                     => \E j \in 1..Len(after) : after[j] = before[i]
      /\ (/\ Done(1, "getEntryById") /\ ~r.rejected
          /\ r.prev.op = "updateEntry" /\ r.prev.clean
          /\ ConformsToSchema(r.prev.arg)
          /\ someId(ReadAll(r.prev.pre), r.prev.arg.id)
          /\ r.id = r.prev.arg.id)
           => r.ret = [k |-> "entry", v |-> r.prev.arg]

(* ------------------------------------------------------------------ *)
(* C9  Clear                                                            *)
(* ------------------------------------------------------------------ *)
\* C9: in a non-interleaved run without rejections, clearAllEntries returns
\* true whatever the store held and read-all is empty afterwards; the
\* getEntryCount that follows returns 0; a second clearAllEntries returns
\* true as well.
C9_Clear ==
  LET r == proc[1]
  IN  /\ (Done(1, "clearAllEntries") /\ ~r.rejected)
           => (r.ret = Bool(TRUE) /\ ReadAll(storage) = <<>>)
      /\ (/\ Done(1, "getEntryCount") /\ ~r.rejected
          /\ r.prev.op = "clearAllEntries" /\ r.prev.clean)
           => r.ret = Number(0)

\* A second clearAllEntries returned true after one that emptied a store
\* holding entries.
C9_Witness ==
  LET r == proc[1]
  IN  /\ Done(1, "clearAllEntries") /\ ~r.rejected /\ r.ret = Bool(TRUE)
      /\ r.prev.op = "clearAllEntries" /\ r.prev.clean
      /\ r.prev.ret = Bool(TRUE)
      /\ ReadAll(r.prev.pre) # <<>>

(* ------------------------------------------------------------------ *)
(* C10  Validator rejection is fail-fast                                *)
(* ------------------------------------------------------------------ *)
\* C10: in every interleaving, saveEntry and updateEntry of a value that does
\* not conform to the schema return false without any getItem, setItem or
\* removeItem; the value is not among the stored elements, and with no other
\* call in progress the stored text is the one found.
C10_RejectFailFast ==
  \A p \in Procs :
    LET r == proc[p]
    IN  (/\ r.pc = "done" /\ r.op \in {"saveEntry", "updateEntry"}
         /\ ~ConformsToSchema(r.arg))
          => /\ r.ret = Bool(FALSE)
             /\ r.gets = 0 /\ r.sets = 0 /\ r.removes = 0
             /\ \A i \in 1..Len(storage.items) :
                  parseEntry(storage.items[i]) # r.arg
             /\ (proc[2].op = "none" => storage = r.pre)

\* A record without latitude was refused on a store that holds entries.
C10_Witness ==
  \E p \in Procs :
    /\ Done(p, "saveEntry") /\ proc[p].arg = E7
    /\ proc[p].ret = Bool(FALSE)
    /\ ReadAll(storage) # <<>>

(* ------------------------------------------------------------------ *)
(* C11  A rejected AsyncStorage call and the value returned             *)
(* ------------------------------------------------------------------ *)
\* The value an operation returns when it fails.
SafeDefault(o) ==
  CASE o \in Mutating -> Bool(FALSE)
    [] o = "getEntries" -> Entries(<<>>)
    [] o = "getEntryCount" -> Number(0)
    [] o = "getEntryById" -> [k |-> "null"]
    [] OTHER -> Void

\* C11: an operation during which a getItem, setItem or removeItem rejected
\* returns its safe default: false from saveEntry, removeEntry, updateEntry
\* and clearAllEntries, [] from getEntries, 0 from getEntryCount, null from
\* getEntryById.
C11_FailureSafeDefault ==
  \A p \in Procs :
    (proc[p].pc = "done" /\ proc[p].rejected)
      => proc[p].ret = SafeDefault(proc[p].op)

(* ------------------------------------------------------------------ *)
(* C12  Corrupted storage is collapsed, not repaired                    *)
(* ------------------------------------------------------------------ *)
\* The stored text cannot be decoded, is not a JSON array, or is an array
\* with at least one element that does not conform to the schema.
Corrupted(item) ==
  \/ item.tag \in {"garbage", "nonarray"}
  \/ /\ item.tag = "array"
     /\ \E i \in 1..Len(item.items) : ~ConformsToSchema(Decoded(item)[i])

\* C12: in a non-interleaved run, on a corrupted store getEntries returns [],
\* getEntryCount 0 and getEntryById null (none of the elements that conform),
\* having issued one getItem and nothing else, and the stored text is the one
\* found.
C12_CorruptedCollapsed ==
  LET r == proc[1]
  IN  (/\ r.pc = "done" /\ r.op \in ReadOps
       /\ Corrupted(r.pre))
        => /\ r.ret = SafeDefault(r.op)
           /\ r.seen = <<>>
           /\ r.gets = 1 /\ r.sets = 0 /\ r.removes = 0
           /\ storage = r.pre

\* getEntryById of the id of a conforming element, stored next to an element
\* that is no record, returned null without a rejection.
C12_Witness ==
  LET r == proc[1]
  IN  /\ Done(1, "getEntryById") /\ ~r.rejected
      /\ r.pre.tag = "array" /\ Corrupted(r.pre)
      /\ \E i \in 1..Len(r.pre.items) :
           /\ ConformsToSchema(Decoded(r.pre)[i])
           /\ Decoded(r.pre)[i].id = r.id
      /\ r.ret = [k |-> "null"]
      /\ storage = r.pre

(* ------------------------------------------------------------------ *)
(* C13  Totality                                                        *)
(* ------------------------------------------------------------------ *)
\* The operation in slot p has returned a value of its return type.
Returned(p) ==
  LET r == proc[p]
  IN  /\ r.pc = "done"
      /\ CASE r.op \in Mutating -> r.ret \in {Bool(TRUE), Bool(FALSE)}
           [] r.op = "getEntries" -> r.ret.k = "entries"
           [] r.op = "getEntryById" -> r.ret.k \in {"null", "entry"}
           [] r.op = "getEntryCount" -> r.ret.k = "number" /\ r.ret.n >= 0
           [] r.op = "debugStorage" -> r.ret = Void
           [] OTHER -> FALSE

\* C13: when every AsyncStorage call settles, under every interleaving and
\* every pattern of rejections each call of saveEntry, getEntries,
\* getEntryById, removeEntry, updateEntry, clearAllEntries, getEntryCount and
\* debugStorage returns in the end, with a value of its return type.
C13_Totality ==
  \A p \in Procs : (proc[p].pc \notin {"idle", "done"}) ~> Returned(p)

\* Two overlapping calls have both returned, one of them after a rejection.
C13_Witness ==
  /\ Returned(1) /\ Returned(2)
  /\ proc[2].rejected
  /\ proc[1].op \in Mutating /\ proc[2].op \in Mutating

(* ------------------------------------------------------------------ *)
(* C14  Lost update                                                     *)
(* ------------------------------------------------------------------ *)
\* Both slots hold a saveEntry whose setItem resolved.
BothSaved ==
  /\ \A p \in Procs : proc[p].op = "saveEntry" /\ proc[p].pc = "done"
  /\ \A p \in Procs : proc[p].sets = 1 /\ proc[p].gets = 2

\* C14: two overlapping saveEntry calls that each read the collection before
\* the other's write always leave at most one of the two entries stored (the
\* later write replaces the earlier one); the witness is the run in which
\* both calls nevertheless returned true.
C14_LostUpdate ==
  (/\ BothSaved
   /\ proc[1].entry.id # proc[2].entry.id
   /\ ~someId(proc[1].seen, proc[2].entry.id)
   /\ ~someId(proc[2].seen, proc[1].entry.id))
    => /\ storage \in {proc[1].pending, proc[2].pending}
       /\ ~(/\ someId(Decoded(storage), proc[1].entry.id)
            /\ someId(Decoded(storage), proc[2].entry.id))

\* Two overlapping saveEntry calls of conforming entries with distinct ids on
\* a store without entries both returned true without a rejection, and one
\* entry is stored.
C14_Witness ==
  /\ BothSaved
  /\ \A p \in Procs :
       /\ proc[p].ret = Bool(TRUE) /\ ~proc[p].rejected
       /\ ConformsToSchema(proc[p].arg) /\ proc[p].entry = proc[p].arg
       /\ ReadAll(proc[p].pre) = <<>>
  /\ proc[1].arg.id # proc[2].arg.id
  /\ Len(ReadAll(storage)) = 1
  /\ someId(ReadAll(storage), proc[2].arg.id)
     # someId(ReadAll(storage), proc[1].arg.id)

(* ------------------------------------------------------------------ *)
(* C15  What the verification read decides                              *)
(* ------------------------------------------------------------------ *)
\* C15: in every interleaving, saveEntry returns true only if the collection
\* its verification getEntries returned holds the id it stored under, and
\* removeEntry returns true only if the collection its verification
\* getEntries returned does not hold the id; a saveEntry whose verification
\* read found a text that does not hold its id (another call's write landed
\* after its own) returns false.
C15_VerificationDecides ==
  \A p \in Procs :
    LET r == proc[p]
    IN  /\ (Done(p, "saveEntry") /\ r.ret = Bool(TRUE))
             => /\ r.gets = 2 /\ r.sets = 1
                /\ \E i \in 1..Len(r.current) : r.current[i].id = r.entry.id
                /\ r.current = ReadAll(r.found)
        /\ (Done(p, "removeEntry") /\ r.ret = Bool(TRUE))
             => /\ r.gets = 2 /\ r.sets = 1
                /\ \A i \in 1..Len(r.current) : r.current[i].id # r.id
        /\ (/\ Done(p, "saveEntry") /\ r.gets = 2
            /\ \A i \in 1..Len(Decoded(r.found)) :
                 get(Decoded(r.found)[i], "id") # r.entry.id)
             => r.ret = Bool(FALSE)

\* A saveEntry wrote its entry, the other call's write (an array without that
\* id) landed before the verification read, and the saveEntry returned false
\* with no rejection.
C15_Witness ==
  \E p, q \in Procs :
    LET r == proc[p]
    IN  /\ p # q
        /\ Done(p, "saveEntry") /\ ~r.rejected /\ r.gets = 2
        /\ someId(Decoded(r.pending), r.entry.id)
        /\ r.found = proc[q].pending /\ r.found # r.pending
        /\ r.found.tag = "array" /\ r.found.items # <<>>
        /\ ~someId(Decoded(r.found), r.entry.id)
        /\ r.ret = Bool(FALSE)

(* ------------------------------------------------------------------ *)
(* C16  No rollback on verification mismatch                            *)
(* ------------------------------------------------------------------ *)
\* The text the verification read found does not show what the operation in
\* slot p expects: the id stored (saveEntry), the id gone (removeEntry), the
\* id stored with the createdAt passed (updateEntry).
Mismatch(p) ==
  LET r == proc[p]
      shown == ReadAll(r.found)
  IN  CASE r.op = "saveEntry" -> ~someId(shown, r.entry.id)
        [] r.op = "removeEntry" -> someId(shown, r.id)
        [] r.op = "updateEntry" ->
             ~\E i \in 1..Len(shown) :
                /\ shown[i].id = r.entry.id
                /\ shown[i].createdAt = r.entry.createdAt
                /\ r.entry.createdAt.k = "number"
        [] OTHER -> FALSE

\* C16: a saveEntry, removeEntry or updateEntry whose setItem resolved and
\* whose verification read did not show the expected state, or rejected,
\* returns false having issued one setItem and no removeItem; with no other
\* call the text it wrote stays stored.
C16_NoRollback ==
  \A p \in Procs :
    LET r == proc[p]
    IN  (/\ r.pc = "done" /\ r.op \in {"saveEntry", "removeEntry", "updateEntry"}
         /\ r.gets = 2
         /\ (Mismatch(p) \/ r.verifyRejected))
          => /\ r.ret = Bool(FALSE)
             /\ r.sets = 1 /\ r.removes = 0
             /\ (proc[2].op = "none" => storage = r.pending)

(* ------------------------------------------------------------------ *)
(* C17  The read-only operations leave the store alone                  *)
(* ------------------------------------------------------------------ *)
\* C17: getEntries, getEntryById, getEntryCount and debugStorage issue one
\* getItem and neither setItem nor removeItem, whether the getItem resolves
\* or rejects; in a non-interleaved run the stored text after the call is
\* the text before it, whatever text that is.
C17_ReadOnly ==
  LET r == proc[1]
  IN  (r.op \in ReadOps /\ r.pc = "done")
        => /\ r.gets = 1 /\ r.sets = 0 /\ r.removes = 0
           /\ r.pending = NoItem
           /\ storage = r.pre

\* debugStorage returned on a store whose text is an array with an element
\* that is no record.
C17_Witness ==
  /\ Done(1, "debugStorage") /\ proc[1].ret = Void
  /\ Corrupted(proc[1].pre) /\ proc[1].pre.tag = "array"
  /\ storage = proc[1].pre

(* ------------------------------------------------------------------ *)
(* C18  The id is rewritten on a detected collision only                *)
(* ------------------------------------------------------------------ *)
\* The text holds the element e is written as.
Holds(text, e) ==
  \E j \in 1..Len(text.items) : text.items[j] = stringifyEntry(e)

\* C18: in every interleaving, for a saveEntry that issued its setItem: when
\* the collection it read holds no entry with the id passed, the caller's
\* object is as passed and the text written holds it under that id; when it
\* holds one, the caller's object differs from what was passed in its id
\* only, the new id is a generated one, the text written holds the object
\* under the new id and holds the entries read (the one with the id passed
\* among them) as they were read; once the setItem resolved, with no other
\* call, the text written is the text stored.
C18_IdRewrittenOnCollision ==
  \A p \in Procs :
    LET r == proc[p]
    IN  (r.op = "saveEntry" /\ r.sets = 1)
          => /\ IF ~\E i \in 1..Len(r.seen) : r.seen[i].id = r.arg.id
                THEN r.entry = r.arg
                ELSE /\ r.entry.id # r.arg.id
                     /\ r.entry.id.s = "entry_"
                     /\ r.entry = [r.arg EXCEPT !.id = r.entry.id]
             /\ Holds(r.pending, r.entry)
             /\ Len(r.pending.items) = Len(r.seen) + 1
             /\ \A i \in 1..Len(r.seen) : Holds(r.pending, r.seen[i])
             /\ (r.gets = 2 /\ proc[2].op = "none") => storage = r.pending

\* A saveEntry met a collision: its setItem resolved, the store holds the
\* entry that had the id, unchanged, and the caller's entry under a new id.
C18_Witness ==
  \E p \in Procs :
    LET r == proc[p]
    IN  /\ r.op = "saveEntry" /\ r.pc = "get2"
        /\ r.entry.id # r.arg.id
        /\ storage = r.pending
        /\ \E i \in 1..Len(Decoded(r.pre)) :
             /\ get(Decoded(r.pre)[i], "id") = r.arg.id
             /\ Holds(storage, Decoded(r.pre)[i])
        /\ Holds(storage, r.entry)

(* ------------------------------------------------------------------ *)
(* C19  saveEntry only adds                                             *)
(* ------------------------------------------------------------------ *)
\* C19: in a non-interleaved run, after a saveEntry of a conforming entry on
\* a store whose text is a valid collection, every element stored before the
\* call is still stored, unchanged, whatever the call returned and also when
\* one of its getItem calls rejected.
C19_InsertOnlyAdds ==
  LET r == proc[1]
  IN  (/\ Done(1, "saveEntry") /\ ConformsToSchema(r.arg)
       /\ r.pre.tag = "array" /\ PersistedValid(r.pre))
        => \A i \in 1..Len(r.pre.items) :
             \E j \in 1..Len(storage.items) : storage.items[j] = r.pre.items[i]

(* ------------------------------------------------------------------ *)
(* C20  What a successful updateEntry guarantees                        *)
(* ------------------------------------------------------------------ *)
\* The entries with the id of the entry passed, in the collection the
\* verification read of the updateEntry in slot p returned.
Verified(p) ==
  SelectSeq(proc[p].current, LAMBDA e : e.id = proc[p].arg.id)

\* C20 as stated: in every interleaving, when updateEntry(e) returns true the
\* entry with e's id in the collection its verification read returned equals
\* e in every field.
C20_UpdateStoredIsSupplied ==
  \A p \in Procs :
    (Done(p, "updateEntry") /\ proc[p].ret = Bool(TRUE))
      => /\ Verified(p) # <<>>
         /\ \A i \in 1..Len(Verified(p)) : Verified(p)[i] = proc[p].arg

\* C20 amended: in every interleaving, when updateEntry(e) returns true the
\* collection its verification read returned holds an entry with e's id and
\* e's createdAt (other fields may be those of another call's write); when no
\* other call overlapped, that entry equals e in every field.
C20_UpdateVerified ==
  \A p \in Procs :
    (Done(p, "updateEntry") /\ proc[p].ret = Bool(TRUE))
      => /\ proc[p].gets = 2 /\ proc[p].sets = 1
         /\ \E i \in 1..Len(Verified(p)) :
              Verified(p)[i].createdAt = proc[p].arg.createdAt
         /\ proc[2].op = "none"
              => /\ Len(Verified(p)) = 1
                 /\ Verified(p)[1] = proc[p].arg

\* An updateEntry returned true although the entry its verification read
\* returned, with the same id and createdAt, is another call's and differs
\* from the one passed.
C20_Witness ==
  \E p \in Procs :
    /\ Done(p, "updateEntry") /\ proc[p].ret = Bool(TRUE)
    /\ ~proc[p].rejected
    /\ Len(Verified(p)) = 1
    /\ Verified(p)[1].createdAt = proc[p].arg.createdAt
    /\ Verified(p)[1] # proc[p].arg

====
